---- MODULE Spec2Model ----
(***************************************************************************)
(* State-evolution core of the FlappyBirb game (state$ and its reducers).  *)
(*                                                                         *)
(* Units.  The program computes with IEEE doubles; the model computes with *)
(* integers on fixed grids:                                                *)
(*   - vertical lengths and velocities in tenths of a pixel                *)
(*     (Birb.GRAVITY 0.6 is 6, the flap impulse -7 is -70, y = 200 is      *)
(*     2000); the bounce magnitude is truncated to that grid;              *)
(*   - horizontal positions in sixtieths of a pixel, the grid on which     *)
(*     600 - 650 * age / 3000 is exact for every integer age;              *)
(*   - times in milliseconds.                                              *)
(* RNG.hash is computed as the doubles compute it (the product and the sum *)
(* are rounded to 53 significant bits), on 14-bit limbs so that no         *)
(* intermediate value leaves the 32-bit range of the model checker.        *)
(***************************************************************************)
EXTENDS Integers, Sequences, FiniteSets, TLC

(***************************************************************************)
(* Constants of the program                                                *)
(***************************************************************************)
CANVAS_WIDTH == 600
CANVAS_HEIGHT == 400
BIRB_WIDTH == 42
BIRB_HEIGHT == 30
PIPE_WIDTH == 50
TICK_RATE_MS == 16
PIPE_TRAVEL_MS == 3000
BOUNCE_SPREAD == 4
BOUNCE_MEAN == 8
BOUNCE_SEED == 1234
WIN_SCORE == 20
INITIAL_LIVES == 3
INITIAL_POSITION == 200

\* Birb.GRAVITY (0.6) and the flap impulse (-7), in tenths of a pixel per tick.
GRAVITY == 6
FLAP_VELOCITY == -70

\* Grid factors: tenths of a pixel (vertical), sixtieths of a pixel (horizontal).
Y(px) == 10 * px
X(px) == 60 * px

(***************************************************************************)
(* Optional values: `undefined` is the empty sequence, a value v is <<v>>.  *)
(***************************************************************************)
None == << >>
Some(v) == << v >>

(***************************************************************************)
(* RNG                                                                     *)
(***************************************************************************)
RNG_a == 1103515245
RNG_c == 12345
\* RNG.m - 1 = 2^31 - 1 (RNG.m itself is 2^31).
RNG_mMinus1 == 2147483647

\* Limb width of the multi-precision arithmetic (2^14) and powers of two.
Limb == 16384
Pow2(k) == << 1, 2, 4, 8, 16, 32, 64, 128, 256, 512, 1024, 2048, 4096, 8192, 16384,
              32768, 65536, 131072, 262144, 524288, 1048576 >>[k + 1]

\* Number of significant bits of n, 0 <= n < 2^20.
BitLen(n) == IF n = 0 THEN 0 ELSE CHOOSE k \in 1..20 : Pow2(k - 1) <= n /\ n < Pow2(k)

\* The three limbs of n, 0 <= n < 2^31, least significant first.
Limbs(n) == << n % Limb, (n \div Limb) % Limb, n \div (Limb * Limb) >>

\* x + d on limbs, 0 <= d < 2^14 * 2, carries propagated.
RECURSIVE AddSmall(_, _)
AddSmall(x, d) ==
    IF x = << >> THEN << >>
    ELSE LET t == Head(x) + d
         IN  << t % Limb >> \o AddSmall(Tail(x), t \div Limb)

\* x - d on limbs, 0 <= d <= x, d < 2^14, borrows propagated.
RECURSIVE SubSmall(_, _)
SubSmall(x, d) ==
    IF x = << >> THEN << >>
    ELSE LET t == Head(x) - d
         IN  IF t >= 0 THEN << t >> \o Tail(x)
             ELSE << t + Limb >> \o SubSmall(Tail(x), 1)

\* The exact product of two non-negative numbers below 2^31, as five limbs.
MulLimbs(a, s) ==
    LET x == Limbs(a)
        y == Limbs(s)
        c0 == x[1] * y[1]
        c1 == x[1] * y[2] + x[2] * y[1] + (c0 \div Limb)
        c2 == x[1] * y[3] + x[2] * y[2] + x[3] * y[1] + (c1 \div Limb)
        c3 == x[2] * y[3] + x[3] * y[2] + (c2 \div Limb)
        c4 == x[3] * y[3] + (c3 \div Limb)
    IN  << c0 % Limb, c1 % Limb, c2 % Limb, c3 % Limb, c4 >>

\* A five-limb magnitude below 2^63 rounded to 53 significant bits, ties to
\* even: the value a double holds after an inexact operation.
RoundDouble(x) ==
    LET top == x[5] * Limb + x[4]
        k == BitLen(top) - 11
    IN  IF k <= 0 THEN x
        ELSE LET r == x[1] % Pow2(k)
                 half == Pow2(k - 1)
                 odd == (x[1] \div Pow2(k)) % 2 = 1
                 down == << x[1] - r >> \o Tail(x)
             IN  IF r > half \/ (r = half /\ odd)
                 THEN AddSmall(down, Pow2(k))
                 ELSE down

\* x % 2^31 of a five-limb magnitude.
Mod2p31(x) == (x[3] % 8) * (Limb * Limb) + x[2] * Limb + x[1]

\* RNG.hash: (a * seed + c) % m in double arithmetic, for an integer seed
\* with |seed| < 2^31.  The remainder keeps the sign of the dividend.
RNG_hash(seed) ==
    IF seed >= 0
    THEN Mod2p31(RoundDouble(AddSmall(RoundDouble(MulLimbs(RNG_a, seed)), RNG_c)))
    ELSE 0 - Mod2p31(RoundDouble(SubSmall(RoundDouble(MulLimbs(RNG_a, 0 - seed)), RNG_c)))

\* RNG.scale: 2 * hash / (m - 1) - 1, given by its floor and its ceiling, for
\* |hash| <= m - 1 (every remainder of an integer by 2^31).  2 * hash is
\* compared with m - 1 as hash with (m - 1) - hash; -1, 0 and 1 are doubles
\* and rounding is monotone, so the double lies in [-1, 1] exactly when the
\* floor is at least -1 and the ceiling at most 1.
RNG_scaleFloor(hash) ==
    LET F(x) == IF x = RNG_mMinus1 THEN 2 ELSE IF x >= RNG_mMinus1 - x THEN 1 ELSE 0
        C(x) == IF x = 0 THEN 0 ELSE IF x <= RNG_mMinus1 - x THEN 1 ELSE 2
    IN  (IF hash >= 0 THEN F(hash) ELSE 0 - C(0 - hash)) - 1

RNG_scaleCeil(hash) ==
    LET F(x) == IF x = RNG_mMinus1 THEN 2 ELSE IF x >= RNG_mMinus1 - x THEN 1 ELSE 0
        C(x) == IF x = 0 THEN 0 ELSE IF x <= RNG_mMinus1 - x THEN 1 ELSE 2
    IN  (IF hash >= 0 THEN C(hash) ELSE 0 - F(0 - hash)) - 1

(***************************************************************************)
(* Pipes                                                                   *)
(***************************************************************************)
\* One row of the CSV after Number(): gapY and gapHeight are fractions of the
\* canvas height, held in percent; time is rows[2] * 1000, in milliseconds.
PipeFromRow(row) ==
    LET gy == (row.gapY * Y(CANVAS_HEIGHT)) \div 100
        gh == (row.gapHeight * Y(CANVAS_HEIGHT)) \div 100
    IN  [ time |-> row.time,
          age |-> 0,
          xpos |-> X(CANVAS_WIDTH),
          prevXpos |-> X(CANVAS_WIDTH),
          birdPassing |-> FALSE,
          prevPassing |-> FALSE,
          passed |-> FALSE,
          gapTop |-> gy - gh \div 2,
          gapBottom |-> gy + gh \div 2 - Y(BIRB_HEIGHT) ]

\* pipeProperties: the parsed rows, in file order.
ParsePipes(rows) == [ i \in 1..Len(rows) |-> PipeFromRow(rows[i]) ]

\* Horizontal span of the bird: BIRB_X = CANVAS_WIDTH * 0.3 - WIDTH / 2 = 159.
BIRB_X == X((CANVAS_WIDTH * 3) \div 10) - X(BIRB_WIDTH) \div 2
BIRB_REAR == BIRB_X + X(BIRB_WIDTH)

\* clampRatio on the ratio num / PIPE_TRAVEL_MS, returned as its numerator.
clampRatio(num) ==
    IF num <= 0 THEN 0 ELSE IF num >= PIPE_TRAVEL_MS THEN PIPE_TRAVEL_MS ELSE num

\* Mutant: the progress ratio is used without clampRatio.
pipeXposAtAge_Unclamped(age) ==
    X(CANVAS_WIDTH) - (X(CANVAS_WIDTH + PIPE_WIDTH) * age) \div PIPE_TRAVEL_MS

\* pipeXposAtAge: CANVAS_WIDTH - distance * prog.
pipeXposAtAge(age) ==
    LET prog == clampRatio(age)
        distance == CANVAS_WIDTH + PIPE_WIDTH
    IN  X(CANVAS_WIDTH) - (X(distance) * prog) \div PIPE_TRAVEL_MS

\* Mutant: the position is returned as it came, outside the gap or not.
clampToPipeGap_Identity(p, y) == y

clampToPipeGap(p, y) ==
    IF y <= p.gapTop THEN p.gapTop ELSE IF y >= p.gapBottom THEN p.gapBottom ELSE y

outsideGapY(p, y) == y <= p.gapTop \/ y >= p.gapBottom

hitTopSide(p, y) == y <= p.gapTop

\* Mutant: prevPassing is copied from the pipe's own prevPassing.
UpdatePipe_StalePrev(p, currentTime) ==
    LET age == currentTime - p.time
        xpos == pipeXposAtAge(age)
    IN  [ p EXCEPT !.age = age,
                   !.prevXpos = p.xpos,
                   !.xpos = xpos,
                   !.prevPassing = p.prevPassing,
                   !.passed = IF BIRB_X > xpos + X(PIPE_WIDTH) THEN TRUE ELSE p.passed,
                   !.birdPassing = xpos <= BIRB_REAR /\ xpos + X(PIPE_WIDTH) >= BIRB_X ]

\* Mutant: a pipe counts as passed once the bird's front is beyond its
\* leading edge.
UpdatePipe_PassedAtEntry(p, currentTime) ==
    LET age == currentTime - p.time
        xpos == pipeXposAtAge(age)
    IN  [ p EXCEPT !.age = age,
                   !.prevXpos = p.xpos,
                   !.xpos = xpos,
                   !.prevPassing = p.birdPassing,
                   !.passed = IF BIRB_X > xpos THEN TRUE ELSE p.passed,
                   !.birdPassing = xpos <= BIRB_REAR /\ xpos + X(PIPE_WIDTH) >= BIRB_X ]

\* Mutant: the age is the clock reading, the spawn time left out.
UpdatePipe_NoSpawnTime(p, currentTime) ==
    LET age == currentTime
        xpos == pipeXposAtAge(age)
    IN  [ p EXCEPT !.age = age,
                   !.prevXpos = p.xpos,
                   !.xpos = xpos,
                   !.prevPassing = p.birdPassing,
                   !.passed = IF BIRB_X > xpos + X(PIPE_WIDTH) THEN TRUE ELSE p.passed,
                   !.birdPassing = xpos <= BIRB_REAR /\ xpos + X(PIPE_WIDTH) >= BIRB_X ]

\* The body of pipeQueue.map: one pipe recomputed for the time currentTime.
UpdatePipe(p, currentTime) ==
    LET age == currentTime - p.time
        xpos == pipeXposAtAge(age)
    IN  [ p EXCEPT !.age = age,
                   !.prevXpos = p.xpos,
                   !.xpos = xpos,
                   !.prevPassing = p.birdPassing,
                   !.passed = IF BIRB_X > xpos + X(PIPE_WIDTH) THEN TRUE ELSE p.passed,
                   !.birdPassing = xpos <= BIRB_REAR /\ xpos + X(PIPE_WIDTH) >= BIRB_X ]

\* pipeQueue.map(...)
UpdatePipes(q, currentTime) == [ i \in 1..Len(q) |-> UpdatePipe(q[i], currentTime) ]

IsPassing(p) == p.birdPassing = TRUE

\* Mutant: the score filter reads the overlap flag instead of the passed flag.
IsPassed_Overlap(p) == p.birdPassing = TRUE

IsPassed(p) == p.passed = TRUE

\* Mutant: the render filter without its upper bound.
OnScreen_NoUpper(p) == p.age >= 0

OnScreen(p) == p.age >= 0 /\ p.age <= PIPE_TRAVEL_MS

\* Mutant: the last overlapping pipe is selected.
currentPipePassing_Last(pipeQueuePass) ==
    LET hits == SelectSeq(pipeQueuePass, IsPassing)
    IN  IF hits = << >> THEN None ELSE Some(hits[Len(hits)])

\* pipeQueuePass.find(p => p.birdPassing === true): the first such pipe, or
\* undefined.
currentPipePassing(pipeQueuePass) ==
    LET hits == SelectSeq(pipeQueuePass, IsPassing)
    IN  IF hits = << >> THEN None ELSE Some(Head(hits))

(***************************************************************************)
(* Ghost                                                                   *)
(***************************************************************************)
\* path.reduce((best, pt, i) => pt.t <= t ? i : best, best0) over the elements
\* lo..hi, with indices from 1: the last index in lo..hi whose sample has
\* t <= time, and best0 if there is none.  The range is searched by halves
\* (the right half first) to keep the evaluation shallow.
RECURSIVE ReduceIdxLE(_, _, _, _, _)
ReduceIdxLE(path, time, lo, hi, best0) ==
    IF lo > hi THEN best0
    ELSE IF lo = hi THEN (IF path[lo].t <= time THEN lo ELSE best0)
    ELSE LET mid == (lo + hi) \div 2
             right == ReduceIdxLE(path, time, mid + 1, hi, 0)
         IN  IF right # 0 THEN right ELSE ReduceIdxLE(path, time, lo, mid, best0)

\* Mutant: the index is the number of the tick, one sample a tick.
lastIdxLE_PerTick(path, time) == time \div TICK_RATE_MS + 1

\* Mutant: the comparison is pt.t < t.
lastIdxLE_Strict(path, time) == ReduceIdxLE(path, time - 1, 1, Len(path), 1)

\* lastIdxLE: the reduce starts from index 0 of the array, index 1 here.
lastIdxLE(path, time) == ReduceIdxLE(path, time, 1, Len(path), 1)

\* Mutant: with no recording the ghost takes the bird's own position.
GhostBirbPos_OwnPosition(ghostPath, currentTime, s) ==
    IF ghostPath # None /\ Len(ghostPath[1]) > 0
    THEN LET path == ghostPath[1]
         IN  IF currentTime <= path[Len(path)].t
             THEN Some(path[lastIdxLE(path, currentTime)].y)
             ELSE None
    ELSE Some(s.birbPosition)

\* ghostBirbPos of a tick: ghostPath is prevPathRef.value (None when undefined).
GhostBirbPos(ghostPath, currentTime, s) ==
    IF ghostPath # None /\ Len(ghostPath[1]) > 0
    THEN LET path == ghostPath[1]
         IN  IF currentTime <= path[Len(path)].t
             THEN Some(path[lastIdxLE(path, currentTime)].y)
             ELSE None
    ELSE s.ghostBirbPos

(***************************************************************************)
(* Reducers                                                                *)
(***************************************************************************)
IsTerminal(s) == s.gameOver \/ s.score = WIN_SCORE

\* Bounce.MEAN + Bounce.SPREAD * RNG.scale(h), in tenths of a pixel, truncated:
\* scale(h) = 2h / (m - 1) - 1, so the value is 10 * (MEAN - SPREAD) plus
\* floor(20 * SPREAD * h / (m - 1)), found without leaving the 32-bit range.
BounceOf(h) ==
    LET n == 2 * Y(BOUNCE_SPREAD)
        q == RNG_mMinus1 \div n
        r == RNG_mMinus1 % n
        \* ceil(k * (m - 1) / n)
        Thr(k) == k * q + (k * r + n - 1) \div n
        mag == IF h >= 0
               THEN CHOOSE k \in 0..n : Thr(k) <= h /\ (k = n \/ h < Thr(k + 1))
               ELSE 0 - (CHOOSE k \in 1..n : Thr(k - 1) < 0 - h /\ 0 - h <= Thr(k))
    IN  Y(BOUNCE_MEAN) - Y(BOUNCE_SPREAD) + mag

initialState(seed) ==
    [ birbPosition |-> Y(INITIAL_POSITION),
      birbVelocity |-> 0,
      birbLives |-> INITIAL_LIVES,
      elapsedTime |-> 0,
      score |-> 0,
      gameOver |-> FALSE,
      pipeRead |-> None,
      pipeRendering |-> None,
      rngSeed |-> seed,
      invinciblePipeTime |-> None,
      ghostBirbPos |-> None,
      paused |-> FALSE ]

\* Mutant: a flap also lifts the bird at once.
FlapReducer_Lift(s) ==
    IF s.gameOver \/ s.score = WIN_SCORE THEN s
    ELSE [ s EXCEPT !.birbVelocity = FLAP_VELOCITY,
                    !.birbPosition = s.birbPosition + FLAP_VELOCITY ]

\* Mutant: a flap advances the seed.
FlapReducer_AdvancesSeed(s) ==
    IF s.gameOver \/ s.score = WIN_SCORE THEN s
    ELSE [ s EXCEPT !.birbVelocity = FLAP_VELOCITY, !.rngSeed = RNG_hash(s.rngSeed) ]

\* Mutant: the flap reducer without its terminal guard.
FlapReducer_Unguarded(s) == [ s EXCEPT !.birbVelocity = FLAP_VELOCITY ]

\* The reducer flap$ maps every Space press to.
FlapReducer(s) ==
    IF s.gameOver \/ s.score = WIN_SCORE THEN s
    ELSE [ s EXCEPT !.birbVelocity = FLAP_VELOCITY ]

\* Mutant: pausing also stops the bird.
PauseReducer_Stop(paused, s) == [ s EXCEPT !.paused = paused, !.birbVelocity = 0 ]

\* The reducer pauseState$ maps every value of pause$ to.
PauseReducer(paused, s) == [ s EXCEPT !.paused = paused ]

\* updatedBirbPosition: the integrated position clamped into the canvas.
updatedBirbPosition(newBirbPositionUnbound) ==
    LET floor == Y(CANVAS_HEIGHT) - Y(BIRB_HEIGHT)
    IN  IF newBirbPositionUnbound <= 0 THEN 0
        ELSE IF newBirbPositionUnbound >= floor THEN floor
        ELSE newBirbPositionUnbound

\* Mutant: the canvas bounds are never a collision.
hitCanvas_Never(y) == FALSE

\* Mutant: a collision is flagged a bird's height above the floor.
hitCanvas_Margin(y) == y >= Y(CANVAS_HEIGHT) - 2 * Y(BIRB_HEIGHT) \/ y = 0

hitCanvas(y) ==
    LET floor == Y(CANVAS_HEIGHT) - Y(BIRB_HEIGHT)
    IN  IF y = floor THEN TRUE ELSE IF y = 0 THEN TRUE ELSE FALSE

\* Mutant: a bird with a ghost beside it is not hit by a pipe.
firstHitThisPipe_GhostShield(s, overlapping, y) ==
    /\ overlapping # None
    /\ outsideGapY(overlapping[1], y)
    /\ s.invinciblePipeTime # Some(overlapping[1].time)
    /\ s.ghostBirbPos = None

\* overlapping is currentPipePassing: None, or Some(pipe).
firstHitThisPipe(s, overlapping, y) ==
    /\ overlapping # None
    /\ outsideGapY(overlapping[1], y)
    /\ s.invinciblePipeTime # Some(overlapping[1].time)

keepPhasing(s, overlapping) ==
    /\ overlapping # None
    /\ s.invinciblePipeTime # None
    /\ s.invinciblePipeTime = Some(overlapping[1].time)

\* Mutant: no first hit counts as a side entry.
isSideEntry_Never(overlapping, firstHit) == FALSE

isSideEntry(overlapping, firstHit) ==
    /\ overlapping # None /\ firstHit
    /\ ~overlapping[1].prevPassing
    /\ overlapping[1].birdPassing

shouldClamp(overlapping, firstHit) ==
    firstHit /\ overlapping # None /\ ~isSideEntry(overlapping, firstHit)

newBirbPosition(overlapping, firstHit, y) ==
    IF shouldClamp(overlapping, firstHit) THEN clampToPipeGap(overlapping[1], y) ELSE y

hitPipeTop(overlapping, firstHit, y) ==
    firstHit /\ overlapping # None /\ hitTopSide(overlapping[1], y)

\* Mutant: a collision leaves the integrated velocity in place.
newBirbVelocity_NoBounce(collideFrame, hitTop, updatedBirbVelocity, bounce) ==
    updatedBirbVelocity

newBirbVelocity(collideFrame, hitTop, updatedBirbVelocity, bounce) ==
    IF ~collideFrame THEN updatedBirbVelocity
    ELSE IF hitTop THEN bounce
    ELSE 0 - bounce

\* Mutant: a collision adds a life instead of taking one.
newBirbLives_Plus(s, collideFrame) ==
    IF collideFrame THEN s.birbLives + 1 ELSE s.birbLives

newBirbLives(s, collideFrame) ==
    IF collideFrame
    THEN IF s.birbLives - 1 <= 0 THEN 0 ELSE s.birbLives - 1
    ELSE s.birbLives

\* Mutant: the marker is not held while the pipe still overlaps.
invinciblePipeTime2_NoHold(s, overlapping, firstHit) ==
    IF firstHit /\ overlapping # None THEN Some(overlapping[1].time) ELSE None

\* Mutant: the marker is never cleared.
invinciblePipeTime2_Sticky(s, overlapping, firstHit) ==
    IF firstHit /\ overlapping # None THEN Some(overlapping[1].time)
    ELSE s.invinciblePipeTime

invinciblePipeTime2(s, overlapping, firstHit) ==
    IF firstHit /\ overlapping # None THEN Some(overlapping[1].time)
    ELSE IF keepPhasing(s, overlapping) THEN s.invinciblePipeTime
    ELSE None

\* Mutant: every spawned pipe counts.
scoreUpdate_Spawned(pipeQueuePass) == Len(pipeQueuePass)

scoreUpdate(pipeQueuePass) == Len(SelectSeq(pipeQueuePass, IsPassed))

\* Mutant: the game is over with one life left.
newGameOver_Early(lives) == IF lives <= 1 THEN TRUE ELSE FALSE

newGameOver(lives) == IF lives = 0 THEN TRUE ELSE FALSE

\* The reducer tick$ maps every interval emission to.
TickReducer(s, pipeProperties, ghostPath) ==
    IF s.gameOver \/ s.score = WIN_SCORE \/ s.paused THEN s
    ELSE
    LET updatedBirbVelocity == s.birbVelocity + GRAVITY
        newBirbPositionUnbound == s.birbPosition + updatedBirbVelocity
        pipeQueue == IF s.pipeRead = None THEN pipeProperties ELSE s.pipeRead[1]
        currentTime == s.elapsedTime + TICK_RATE_MS
        ghostBirbPos == GhostBirbPos(ghostPath, currentTime, s)
        pipeQueueUpdated == UpdatePipes(pipeQueue, currentTime)
        Spawned(p) == p.time <= currentTime
        pipeQueuePass == SelectSeq(pipeQueueUpdated, Spawned)
        nextPipe == SelectSeq(pipeQueuePass, OnScreen)
        y == updatedBirbPosition(newBirbPositionUnbound)
        overlapping == currentPipePassing(pipeQueuePass)
        firstHit == firstHitThisPipe(s, overlapping, y)
        hitCanvasTop == y = 0
        collideFrame == firstHit \/ hitCanvas(y)
        seed1 == IF collideFrame THEN RNG_hash(s.rngSeed) ELSE s.rngSeed
        bounce == IF collideFrame THEN BounceOf(seed1) ELSE 0
        lives == newBirbLives(s, collideFrame)
        rngSeed2 == IF collideFrame THEN seed1 ELSE s.rngSeed
    IN  [ s EXCEPT !.birbPosition = newBirbPosition(overlapping, firstHit, y),
                   !.birbVelocity =
                       newBirbVelocity(collideFrame,
                                       hitCanvasTop \/ hitPipeTop(overlapping, firstHit, y),
                                       updatedBirbVelocity, bounce),
                   !.birbLives = lives,
                   !.elapsedTime = currentTime,
                   !.score = scoreUpdate(pipeQueuePass),
                   !.gameOver = newGameOver(lives),
                   !.pipeRead = Some(pipeQueueUpdated),
                   !.pipeRendering = Some(nextPipe),
                   !.rngSeed = rngSeed2,
                   !.invinciblePipeTime = invinciblePipeTime2(s, overlapping, firstHit),
                   !.ghostBirbPos = ghostBirbPos ]

(***************************************************************************)
(* Bounds of the model                                                     *)
(*                                                                         *)
(* A session is either long, with Space presses only between ticks whose   *)
(* number is a multiple of LongKeyEvery and R presses only after the run   *)
(* has ended, or short, with key presses at any time, or one in which      *)
(* Space is pressed once before each of the first HoldFirst ticks and at   *)
(* most once between two ticks afterwards.  Ticks, Space, P and R presses *)
(* are counted over the session.                                           *)
(***************************************************************************)
LongTicks == 150
LongKeyEvery == 20
LongFlaps == 3
LongRestarts == 1
ShortTicks == 6
ShortFlaps == 1
ShortPauses == 2
ShortRestarts == 2
HoldTicks == 36
HoldFlaps == 32
HoldFirst == 31

LongSession ==
    [ ticks |-> LongTicks, keyEvery |-> LongKeyEvery, flaps |-> LongFlaps,
      pauses |-> 0, restarts |-> LongRestarts, restartMidRun |-> FALSE,
      held |-> 0 ]

ShortSession ==
    [ ticks |-> ShortTicks, keyEvery |-> 1, flaps |-> ShortFlaps,
      pauses |-> ShortPauses, restarts |-> ShortRestarts, restartMidRun |-> TRUE,
      held |-> 0 ]

HoldSession ==
    [ ticks |-> HoldTicks, keyEvery |-> 1, flaps |-> HoldFlaps,
      pauses |-> 0, restarts |-> 0, restartMidRun |-> FALSE,
      held |-> HoldFirst ]

(***************************************************************************)
(* Inputs: the CSV file and the seed of initialState                       *)
(***************************************************************************)
Row(gapY, gapHeight, time) == [ gapY |-> gapY, gapHeight |-> gapHeight, time |-> time ]

\* Files of a long session: no pipe; one pipe with a gap 40% of the canvas
\* high centred at 75%, followed by a pipe that spawns after the first one has
\* been passed; twenty pipes whose gap is the whole canvas, the last one a
\* tick later; two pipes a tick apart whose gaps do not meet; one pipe whose
\* gap is centred on the lower edge of the canvas; that pipe a tick behind
\* another one; twenty-one pipes with the same spawn time.
LongFiles ==
    { << >>,
      << Row(75, 40, 0), Row(75, 40, 144 * TICK_RATE_MS) >>,
      [ i \in 1..WIN_SCORE |-> Row(50, 100, IF i = WIN_SCORE THEN TICK_RATE_MS ELSE 0) ],
      << Row(75, 40, 0), Row(25, 40, TICK_RATE_MS) >>,
      << Row(100, 10, 0) >>,
      << Row(75, 40, 0), Row(100, 10, TICK_RATE_MS) >>,
      [ i \in 1..(WIN_SCORE + 1) |-> Row(50, 100, 0) ] }

ShortFiles == { << Row(50, 50, 0) >> }

\* initialState.rngSeed: Bounce.SEED, or a reading of performance.now().
Seeds == { BOUNCE_SEED, 99 }

(***************************************************************************)
(* The session: state$                                                     *)
(***************************************************************************)
VARIABLES
    state,          \* accumulator of scan in runState$: the last State emitted
    prior,          \* the accumulator before the last event
    lastEvent,      \* the last event dispatched
    runActive,      \* runState$ is subscribed and has not completed
    pauseStateAcc,  \* accumulator of the pause$ subscription of pauseState$
    gateAcc,        \* accumulator of the pause$ subscription of gatedGame$
    gateOpen,       \* gatedGame$ is subscribed to merge(flap$, tick$)
    currentPath,    \* samples pushed by tap in the current run
    prevPathRef,    \* prevPathRef.value
    pipeProperties, \* the parsed CSV
    seed0,          \* initialState.rngSeed
    limits,         \* the bounds of this session
    nTicks, nFlaps, nPauses, nRestarts

vars == << state, prior, lastEvent, runActive, pauseStateAcc, gateAcc, gateOpen,
           currentPath, prevPathRef, pipeProperties, seed0, limits,
           nTicks, nFlaps, nPauses, nRestarts >>

\* Mutant: the recorder samples the velocity.
Sample_Velocity(s) == [ t |-> s.elapsedTime, y |-> s.birbVelocity ]

Sample(s) == [ t |-> s.elapsedTime, y |-> s.birbPosition ]

\* Mutant: finalize without its length test.
Finalize_Always(path, ref) == Some(path)

\* finalize of runState$: the slot takes the recording unless it is empty.
Finalize(path, ref) == IF Len(path) > 0 THEN Some(path) ELSE ref

\* Mutant: no takeWhile, the run stays subscribed past a terminal State.
Emit_NoTakeWhile(s) ==
    /\ state' = s
    /\ currentPath' = Append(currentPath, Sample(s))
    /\ runActive' = TRUE
    /\ UNCHANGED << gateOpen, prevPathRef >>

\* What runState$ does with a State that scan emits: takeWhile(.., true)
\* passes it, tap records it, and a terminal State completes the run, which
\* runs finalize and unsubscribes the sources.
Emit(s) ==
    /\ state' = s
    /\ currentPath' = Append(currentPath, Sample(s))
    /\ IF IsTerminal(s)
       THEN /\ runActive' = FALSE
            /\ gateOpen' = FALSE
            /\ prevPathRef' = Finalize(currentPath', prevPathRef)
       ELSE /\ runActive' = TRUE
            /\ UNCHANGED << gateOpen, prevPathRef >>

\* Mutant: scan is seeded with initialState carrying the advanced seed.
StartRun_CarrySeed(seed) ==
    LET s == PauseReducer(FALSE, initialState(state.rngSeed))
    IN  /\ state' = s
        /\ currentPath' = << Sample(s) >>
        /\ runActive' = TRUE
        /\ pauseStateAcc' = FALSE
        /\ gateAcc' = FALSE
        /\ gateOpen' = TRUE

\* Mutant: scan is seeded with the accumulator of the run before.
StartRun_KeepState(seed) ==
    LET s == PauseReducer(FALSE, state)
    IN  /\ state' = s
        /\ currentPath' = << Sample(s) >>
        /\ runActive' = TRUE
        /\ pauseStateAcc' = FALSE
        /\ gateAcc' = FALSE
        /\ gateOpen' = TRUE

\* Subscription of the inner observable of switchMap: pauseState$ emits its
\* startWith(false) reducer into scan, whose seed is initialState; then
\* gatedGame$ receives its own startWith(false) and subscribes flap$ and tick$.
StartRun(seed) ==
    LET s == PauseReducer(FALSE, initialState(seed))
    IN  /\ state' = s
        /\ currentPath' = << Sample(s) >>
        /\ runActive' = TRUE
        /\ pauseStateAcc' = FALSE
        /\ gateAcc' = FALSE
        /\ gateOpen' = TRUE

Init ==
    /\ \/ limits = LongSession /\ pipeProperties \in { ParsePipes(rows) : rows \in LongFiles }
       \/ limits = ShortSession /\ pipeProperties \in { ParsePipes(rows) : rows \in ShortFiles }
       \/ limits = HoldSession /\ pipeProperties \in { ParsePipes(rows) : rows \in ShortFiles }
    /\ seed0 \in Seeds
    /\ state = PauseReducer(FALSE, initialState(seed0))
    /\ prior = initialState(seed0)
    /\ lastEvent = "start"
    /\ currentPath = << Sample(state) >>
    /\ prevPathRef = None
    /\ runActive = TRUE
    /\ pauseStateAcc = FALSE
    /\ gateAcc = FALSE
    /\ gateOpen = TRUE
    /\ nTicks = 0 /\ nFlaps = 0 /\ nPauses = 0 /\ nRestarts = 0

KeyTime == (state.elapsedTime \div TICK_RATE_MS) % limits.keyEvery = 0

\* Mutant: fromKey without its filter, so that any event with no other
\* listener reaches restart$ and starts a new run.
Dropped_Unfiltered(key) ==
    /\ prior' = state
    /\ lastEvent' = key
    /\ state' = PauseReducer(FALSE, initialState(seed0))
    /\ currentPath' = << Sample(state') >>
    /\ runActive' = TRUE
    /\ pauseStateAcc' = FALSE
    /\ gateAcc' = FALSE
    /\ gateOpen' = TRUE
    /\ prevPathRef' = IF runActive THEN Finalize(currentPath, prevPathRef) ELSE prevPathRef
    /\ UNCHANGED << nTicks, nFlaps, nPauses >>

\* A key press that no subscribed listener filters for, or a period of
\* TICK_RATE_MS with no subscribed interval: nothing runs.
Dropped(key) ==
    /\ prior' = state
    /\ lastEvent' = key
    /\ UNCHANGED << state, currentPath, runActive, gateOpen, prevPathRef,
                    pauseStateAcc, gateAcc, nTicks, nFlaps, nPauses >>

\* Mutant: the tick reads the recording of its own run as the ghost path.
Tick_OwnPath ==
    /\ IF runActive /\ gateOpen
       THEN /\ nTicks < limits.ticks
            /\ nTicks < limits.held => lastEvent = "flap"
            /\ prior' = state
            /\ lastEvent' = "tick"
            /\ Emit(TickReducer(state, pipeProperties, Some(currentPath)))
            /\ nTicks' = nTicks + 1
            /\ UNCHANGED << pauseStateAcc, gateAcc, nFlaps, nPauses >>
       ELSE Dropped("clock")
    /\ UNCHANGED << pipeProperties, seed0, limits, nRestarts >>

\* TICK_RATE_MS elapses: interval delivers the tick reducer only while
\* gatedGame$ holds a subscription to tick$.
Tick ==
    /\ IF runActive /\ gateOpen
       THEN /\ nTicks < limits.ticks
            /\ nTicks < limits.held => lastEvent = "flap"
            /\ prior' = state
            /\ lastEvent' = "tick"
            /\ Emit(TickReducer(state, pipeProperties, prevPathRef))
            /\ nTicks' = nTicks + 1
            /\ UNCHANGED << pauseStateAcc, gateAcc, nFlaps, nPauses >>
       ELSE Dropped("clock")
    /\ UNCHANGED << pipeProperties, seed0, limits, nRestarts >>

\* Mutant: flap$ merged beside the gate, listening for the whole run.
Flap_Ungated ==
    /\ IF runActive
       THEN /\ KeyTime /\ nFlaps < limits.flaps
            /\ limits.held > 0 => lastEvent # "flap"
            /\ prior' = state
            /\ lastEvent' = "flap"
            /\ nFlaps' = nFlaps + 1
            /\ Emit(FlapReducer(state))
            /\ UNCHANGED << pauseStateAcc, gateAcc, nTicks, nPauses >>
       ELSE Dropped("flap")
    /\ UNCHANGED << pipeProperties, seed0, limits, nRestarts >>

\* A Space keypress: flap$ has a listener only while the gate is open.
Flap ==
    /\ IF runActive /\ gateOpen
       THEN /\ KeyTime /\ nFlaps < limits.flaps
            /\ limits.held > 0 => lastEvent # "flap"
            /\ prior' = state
            /\ lastEvent' = "flap"
            /\ nFlaps' = nFlaps + 1
            /\ Emit(FlapReducer(state))
            /\ UNCHANGED << pauseStateAcc, gateAcc, nTicks, nPauses >>
       ELSE Dropped("flap")
    /\ UNCHANGED << pipeProperties, seed0, limits, nRestarts >>

\* Mutant: no gate, merge(flap$, tick$) stays subscribed through a pause.
PauseToggle_NoGate ==
    /\ IF runActive
       THEN /\ KeyTime /\ nPauses < limits.pauses
            /\ prior' = state
            /\ lastEvent' = "pause"
            /\ nPauses' = nPauses + 1
            /\ pauseStateAcc' = ~pauseStateAcc
            /\ state' = PauseReducer(~pauseStateAcc, state)
            /\ currentPath' = Append(currentPath, Sample(state'))
            /\ gateAcc' = ~gateAcc
            /\ gateOpen' = TRUE
            /\ UNCHANGED << runActive, prevPathRef, nTicks, nFlaps >>
       ELSE Dropped("pause")
    /\ UNCHANGED << pipeProperties, seed0, limits, nRestarts >>

\* A KeyP keypress: the listener of pauseState$ runs first (its reducer goes
\* through scan, takeWhile and tap), then the listener of gatedGame$ switches
\* the gate: EMPTY when the new value is true, merge(flap$, tick$) otherwise.
PauseToggle ==
    /\ IF runActive
       THEN /\ KeyTime /\ nPauses < limits.pauses
            /\ prior' = state
            /\ lastEvent' = "pause"
            /\ nPauses' = nPauses + 1
            /\ pauseStateAcc' = ~pauseStateAcc
            /\ state' = PauseReducer(~pauseStateAcc, state)
            /\ currentPath' = Append(currentPath, Sample(state'))
            /\ gateAcc' = ~gateAcc
            /\ gateOpen' = gateAcc
            /\ UNCHANGED << runActive, prevPathRef, nTicks, nFlaps >>
       ELSE Dropped("pause")
    /\ UNCHANGED << pipeProperties, seed0, limits, nRestarts >>

\* Mutant: unsubscription by switchMap does not run finalize.
Restart_NoFinalize ==
    /\ (limits.restartMidRun \/ ~runActive) /\ nRestarts < limits.restarts
    /\ prior' = state
    /\ lastEvent' = "restart"
    /\ nRestarts' = nRestarts + 1
    /\ prevPathRef' = prevPathRef
    /\ StartRun(seed0)
    /\ UNCHANGED << pipeProperties, seed0, limits, nTicks, nFlaps, nPauses >>

\* A KeyR keypress: switchMap unsubscribes the running inner observable
\* (finalize runs if it had not completed) and subscribes a new one.
Restart ==
    /\ (limits.restartMidRun \/ ~runActive) /\ nRestarts < limits.restarts
    /\ prior' = state
    /\ lastEvent' = "restart"
    /\ nRestarts' = nRestarts + 1
    /\ prevPathRef' = IF runActive THEN Finalize(currentPath, prevPathRef) ELSE prevPathRef
    /\ StartRun(seed0)
    /\ UNCHANGED << pipeProperties, seed0, limits, nTicks, nFlaps, nPauses >>

Next == Tick \/ Flap \/ PauseToggle \/ Restart

Spec == Init /\ [][Next]_vars

(***************************************************************************)
(* The session with the clock running: no Space and no R press, P pressed  *)
(* at multiples of LiveKeyEvery ticks, every pause followed by a resume,   *)
(* and interval emitting for as long as it is subscribed.                  *)
(***************************************************************************)
LiveTicks == 150
LiveKeyEvery == 10
LivePauses == 2

LiveSession ==
    [ ticks |-> LiveTicks, keyEvery |-> LiveKeyEvery, flaps |-> 0,
      pauses |-> LivePauses, restarts |-> 0, restartMidRun |-> FALSE,
      held |-> 0 ]

LiveInit ==
    /\ limits = LiveSession
    /\ pipeProperties \in { ParsePipes(rows) : rows \in LongFiles }
    /\ seed0 \in Seeds
    /\ state = PauseReducer(FALSE, initialState(seed0))
    /\ prior = initialState(seed0)
    /\ lastEvent = "start"
    /\ currentPath = << Sample(state) >>
    /\ prevPathRef = None
    /\ runActive = TRUE
    /\ pauseStateAcc = FALSE
    /\ gateAcc = FALSE
    /\ gateOpen = TRUE
    /\ nTicks = 0 /\ nFlaps = 0 /\ nPauses = 0 /\ nRestarts = 0

\* A KeyP keypress that resumes the game, or one that pauses it while a
\* later one can still resume it.
LivePause ==
    /\ state.paused \/ nPauses + 2 <= limits.pauses
    /\ PauseToggle

LiveNext == Tick \/ LivePause

\* A tick is delivered: the guard of Tick, and its count.
LiveClock ==
    /\ runActive /\ gateOpen
    /\ nTicks < limits.ticks
    /\ nTicks < limits.held => lastEvent = "flap"
    /\ nTicks' = nTicks + 1

\* The KeyP keypress that resumes a paused game: the guard of PauseToggle,
\* and its count.
LiveResume ==
    /\ state.paused
    /\ runActive /\ KeyTime /\ nPauses < limits.pauses
    /\ nPauses' = nPauses + 1

\* interval emits for as long as it is subscribed, and a paused game is
\* resumed.
LiveSpec ==
    /\ LiveInit /\ [][LiveNext]_vars
    /\ WF_nTicks(LiveClock) /\ WF_nPauses(LiveResume)

(***************************************************************************)
(* The functions on their own: RNG.hash on integer seeds of either sign,   *)
(* the pipe update over ages around [0, PIPE_TRAVEL_MS], and the recorder  *)
(* of src/main.ts, whose run starts with an empty currentPath.             *)
(***************************************************************************)
MaxSeed == 60
MaxHashes == 2
AgeMargin == 40
MaxSamples == 2
MaxRuns == 3

Units == { "hash", "age", "path" }

UnitInit ==
    /\ limits \in { [ unit |-> u ] : u \in Units }
    /\ seed0 \in IF limits.unit = "hash" THEN (0 - MaxSeed)..MaxSeed ELSE { BOUNCE_SEED }
    /\ pipeProperties = ParsePipes(<< Row(50, 50, 0), Row(50, 50, TICK_RATE_MS) >>)
    /\ state = [ initialState(seed0) EXCEPT
                   !.elapsedTime = IF limits.unit = "age" THEN 0 - AgeMargin ELSE 0 ]
    /\ prior = state
    /\ lastEvent = "start"
    /\ currentPath = << >>
    /\ prevPathRef \in IF limits.unit = "path"
                       THEN { None, Some(<< Sample(initialState(seed0)) >>) }
                       ELSE { None }
    /\ runActive = TRUE
    /\ pauseStateAcc = FALSE
    /\ gateAcc = FALSE
    /\ gateOpen = TRUE
    /\ nTicks = 0 /\ nFlaps = 0 /\ nPauses = 0 /\ nRestarts = 0

\* seed1 = RNG.hash(s.rngSeed)
UnitHash ==
    /\ limits.unit = "hash" /\ nTicks < MaxHashes
    /\ prior' = state
    /\ lastEvent' = "hash"
    /\ state' = [ state EXCEPT !.rngSeed = RNG_hash(state.rngSeed) ]
    /\ nTicks' = nTicks + 1
    /\ UNCHANGED << runActive, pauseStateAcc, gateAcc, gateOpen, currentPath,
                    prevPathRef, pipeProperties, seed0, limits, nFlaps, nPauses,
                    nRestarts >>

\* pipeQueueUpdated, pipeQueuePass and nextPipe at a later reading of the
\* clock
UnitAge ==
    /\ limits.unit = "age"
    /\ \E dt \in { 1, TICK_RATE_MS } :
          LET currentTime == state.elapsedTime + dt
              pipeQueue == IF state.pipeRead = None THEN pipeProperties
                           ELSE state.pipeRead[1]
              pipeQueueUpdated == UpdatePipes(pipeQueue, currentTime)
              Spawned(p) == p.time <= currentTime
              pipeQueuePass == SelectSeq(pipeQueueUpdated, Spawned)
              nextPipe == SelectSeq(pipeQueuePass, OnScreen)
          IN  /\ currentTime <= PIPE_TRAVEL_MS + TICK_RATE_MS + AgeMargin
              /\ state' = [ state EXCEPT
                              !.elapsedTime = currentTime,
                              !.pipeRead = Some(pipeQueueUpdated),
                              !.pipeRendering = Some(nextPipe) ]
    /\ prior' = state
    /\ lastEvent' = "age"
    /\ UNCHANGED << runActive, pauseStateAcc, gateAcc, gateOpen, currentPath,
                    prevPathRef, pipeProperties, seed0, limits, nTicks, nFlaps,
                    nPauses, nRestarts >>

\* tap: a state of the run is sampled
UnitRecord ==
    /\ limits.unit = "path" /\ runActive /\ Len(currentPath) < MaxSamples
    /\ prior' = state
    /\ lastEvent' = "record"
    /\ state' = [ state EXCEPT !.elapsedTime = @ + TICK_RATE_MS ]
    /\ currentPath' = Append(currentPath, Sample(state'))
    /\ UNCHANGED << runActive, pauseStateAcc, gateAcc, gateOpen, prevPathRef,
                    pipeProperties, seed0, limits, nTicks, nFlaps, nPauses,
                    nRestarts >>

\* finalize: the run ends, by completion or by unsubscription
UnitFinalize ==
    /\ limits.unit = "path" /\ runActive
    /\ prior' = state
    /\ lastEvent' = "finalize"
    /\ runActive' = FALSE
    /\ prevPathRef' = Finalize(currentPath, prevPathRef)
    /\ UNCHANGED << state, pauseStateAcc, gateAcc, gateOpen, currentPath,
                    pipeProperties, seed0, limits, nTicks, nFlaps, nPauses,
                    nRestarts >>

\* The project function of switchMap: a run with a new, empty currentPath
UnitStartRun ==
    /\ limits.unit = "path" /\ ~runActive /\ nRestarts + 1 < MaxRuns
    /\ prior' = state
    /\ lastEvent' = "restart"
    /\ state' = initialState(seed0)
    /\ currentPath' = << >>
    /\ runActive' = TRUE
    /\ nRestarts' = nRestarts + 1
    /\ UNCHANGED << pauseStateAcc, gateAcc, gateOpen, prevPathRef,
                    pipeProperties, seed0, limits, nTicks, nFlaps, nPauses >>

UnitNext == UnitHash \/ UnitAge \/ UnitRecord \/ UnitFinalize \/ UnitStartRun

UnitSpec == UnitInit /\ [][UnitNext]_vars

(***************************************************************************)
(* Properties                                                              *)
(***************************************************************************)
\* C1: within one run the score after every tick, flap and pause-toggle event
\* is greater than or equal to the score before it.
C1_ScoreNonDecreasing == [][lastEvent' # "restart" => state'.score >= state.score]_vars

\* C1 witness: a tick has raised the score.
C1_Witness == lastEvent = "tick" /\ state.score > prior.score

\* C2: within one run birbLives never increases from one state to the next,
\* and in every reachable state 0 <= birbLives <= 3.
C2_LivesNonIncreasing ==
    /\ [](state.birbLives \in 0..INITIAL_LIVES)
    /\ [][lastEvent' # "restart" => state'.birbLives <= state.birbLives]_vars

\* C2 witness: a tick has taken the last life.
C2_Witness == lastEvent = "tick" /\ prior.birbLives = 1 /\ state.birbLives = 0

\* C3 as stated: applied to a state with gameOver = true or score = 20, the
\* tick reducer, the flap reducer and the pause-toggle reducer (the one the
\* next P press maps to) each return the state unchanged in every field.
C3_AllReducersFixTerminal ==
    IsTerminal(state) =>
        /\ TickReducer(state, pipeProperties, prevPathRef) = state
        /\ FlapReducer(state) = state
        /\ PauseReducer(~pauseStateAcc, state) = state

\* C3 amended: applied to a terminal state the tick and flap reducers return
\* it unchanged in every field; the pause-toggle reducer has no terminal guard
\* and would change paused and nothing else; the run has completed at its
\* first terminal state, so no reducer is applied to it and no event but a
\* restart changes the state or records a sample.
C3_TerminalStability ==
    /\ [](IsTerminal(state) =>
            /\ TickReducer(state, pipeProperties, prevPathRef) = state
            /\ FlapReducer(state) = state
            /\ PauseReducer(~pauseStateAcc, state) = [ state EXCEPT !.paused = ~state.paused ]
            /\ ~runActive)
    /\ [][IsTerminal(state) /\ lastEvent' # "restart" =>
            UNCHANGED << state, currentPath >>]_vars

\* C3 witness: a P press after the run has been won.
C3_Witness ==
    lastEvent = "pause" /\ prior.score = WIN_SCORE /\ state.score = WIN_SCORE

\* C4: gameOver is monotone within a run: once true, it is true in every later
\* state until a restart begins a new run.
C4_GameOverMonotone ==
    [][state.gameOver /\ lastEvent' # "restart" => state'.gameOver]_vars

\* C4 witness: an event has followed the loss of the last life.
C4_Witness ==
    prior.gameOver /\ state.gameOver /\ lastEvent \in { "clock", "flap", "pause" }

\* The pipe a tick that produced s selected as overlapping: the first spawned
\* pipe of the updated list with birdPassing = true.
C5_Selected(s) ==
    LET pipes == s.pipeRead[1]
        hits == { i \in 1..Len(pipes) :
                    pipes[i].time <= s.elapsedTime /\ pipes[i].birdPassing }
    IN  IF hits = { } THEN None
        ELSE Some(pipes[CHOOSE i \in hits : \A j \in hits : i <= j])

\* The position a tick from s integrates, clamped into the canvas.
C5_CanvasClamped(s) ==
    LET y == s.birbPosition + s.birbVelocity + GRAVITY
        floor == Y(CANVAS_HEIGHT - BIRB_HEIGHT)
    IN  IF y <= 0 THEN 0 ELSE IF y >= floor THEN floor ELSE y

\* C5: on a tick where the selected overlapping pipe had birdPassing = true on
\* the previous tick, the invincibility marker differs from the pipe's spawn
\* time and the canvas-clamped position y is outside the gap, the resulting
\* birbPosition is gapTop when y <= gapTop and gapBottom otherwise.
C5_CollisionClamp ==
    (lastEvent = "tick" /\ C5_Selected(state) # None) =>
        LET p == C5_Selected(state)[1]
            y == C5_CanvasClamped(prior)
        IN  (/\ p.prevPassing
             /\ prior.invinciblePipeTime # Some(p.time)
             /\ (y <= p.gapTop \/ y >= p.gapBottom))
            => state.birbPosition = IF y <= p.gapTop THEN p.gapTop ELSE p.gapBottom

\* C5 witness: such a tick has moved the bird from strictly outside the gap
\* onto a gap bound.
C5_Witness ==
    /\ lastEvent = "tick" /\ C5_Selected(state) # None
    /\ LET p == C5_Selected(state)[1]
           y == C5_CanvasClamped(prior)
       IN  /\ p.prevPassing
           /\ prior.invinciblePipeTime # Some(p.time)
           /\ (y < p.gapTop \/ y > p.gapBottom)
           /\ state.birbPosition \in { p.gapTop, p.gapBottom }

\* The current run has consisted of ticks only: one sample at subscription
\* and one per tick.
C6_TicksOnly == Len(currentPath) = state.elapsedTime \div TICK_RATE_MS + 1

\* C6: with an empty pipe list, in a run of ticks with no flap, the first tick
\* at which the position equals the floor (370) takes exactly one life
\* (3 -> 2), and the tick immediately after it takes none.
C6_FloorCostsOneLife ==
    (pipeProperties = << >> /\ C6_TicksOnly /\ lastEvent = "tick") =>
        LET floor == Y(CANVAS_HEIGHT - BIRB_HEIGHT)
        IN  /\ prior.birbLives = INITIAL_LIVES =>
                IF state.birbPosition = floor
                THEN state.birbLives = INITIAL_LIVES - 1
                ELSE state.birbLives = INITIAL_LIVES
            /\ (prior.birbLives = INITIAL_LIVES - 1 /\ prior.birbPosition = floor) =>
                state.birbLives = INITIAL_LIVES - 1

\* C6 witness: the tick after the first one at the floor has been taken.
C6_Witness ==
    /\ pipeProperties = << >> /\ C6_TicksOnly /\ lastEvent = "tick"
    /\ prior.birbPosition = Y(CANVAS_HEIGHT - BIRB_HEIGHT)
    /\ prior.birbLives = INITIAL_LIVES - 1
    /\ state.birbLives = INITIAL_LIVES - 1

\* C7: a restart received in any state makes the first state of the new run
\* have score 0, 3 lives, elapsedTime 0, position 200, velocity 0, gameOver
\* and paused false, no invincibility marker, and the pipe list the first
\* tick reads is the scheduled one, no pipe passed or overlapping.
C7_RestartResets ==
    lastEvent = "restart" =>
        /\ state.score = 0
        /\ state.birbLives = 3
        /\ state.elapsedTime = 0
        /\ state.birbPosition = Y(200)
        /\ state.birbVelocity = 0
        /\ ~state.gameOver
        /\ ~state.paused
        /\ state.invinciblePipeTime = None
        /\ state.pipeRead = None
        /\ \A i \in 1..Len(pipeProperties) :
              ~pipeProperties[i].passed /\ ~pipeProperties[i].birdPassing
        /\ runActive /\ gateOpen

\* C7 witness: a restart from a lost run with a score.
C7_Witness == lastEvent = "restart" /\ prior.gameOver /\ prior.score > 0

\* The path of the example: samples (0, 200), (16, 195), (32, 190).
C8_ExamplePath ==
    Some(<< [ t |-> 0, y |-> Y(200) ], [ t |-> 16, y |-> Y(195) ],
            [ t |-> 32, y |-> Y(190) ] >>)

\* C8: on every accepted tick with new elapsed time t, when the recorded path
\* of a previous run exists and is non-empty, ghostBirbPos is the y of the
\* latest sample with timestamp <= t if t <= the last timestamp, and is
\* undefined if t is greater; the example path gives 195 at t = 20 and no
\* ghost at t = 50.
C8_GhostLookup ==
    /\ [][(lastEvent' = "tick" /\ prevPathRef # None /\ prevPathRef[1] # << >>) =>
            LET path == prevPathRef[1]
                t == state'.elapsedTime
            IN  IF t <= path[Len(path)].t
                THEN \E i \in 1..Len(path) :
                        /\ path[i].t <= t
                        /\ \A j \in (i + 1)..Len(path) : path[j].t > t
                        /\ state'.ghostBirbPos = Some(path[i].y)
                ELSE state'.ghostBirbPos = None]_vars
    /\ [](/\ GhostBirbPos(C8_ExamplePath, 20, state) = Some(Y(195))
          /\ GhostBirbPos(C8_ExamplePath, 50, state) = None)

\* C8 witness: a tick has placed the ghost at a recorded position other than
\* the start position.
C8_Witness ==
    /\ lastEvent = "tick" /\ nRestarts > 0
    /\ state.ghostBirbPos \notin { None, Some(Y(INITIAL_POSITION)) }

\* C9: while the game is paused ticks are suppressed entirely: no tick
\* reducer is delivered, and a period of the clock changes no field of the
\* state and records no sample.
C9_PausedTicksSuppressed ==
    [][state.paused =>
          /\ lastEvent' # "tick"
          /\ lastEvent' = "clock" => UNCHANGED << state, currentPath >>]_vars

\* C9 witness: a period of the clock has elapsed in a run paused after its
\* first ticks.
C9_Witness ==
    lastEvent = "clock" /\ state.paused /\ runActive /\ state.elapsedTime > 0

\* C10 as stated: while the game is paused and not terminal, the state after
\* a flap event has birbVelocity = -7.
C10_FlapAppliesWhilePaused ==
    [][(state.paused /\ ~IsTerminal(state) /\ lastEvent' = "flap") =>
          state'.birbVelocity = FLAP_VELOCITY]_vars

\* C10 amended: while the game is paused a flap event changes no field of the
\* state and records no sample; in a run that is neither paused nor ended the
\* state after a flap event has birbVelocity = -7.
C10_FlapGatedByPause ==
    /\ [][(state.paused /\ lastEvent' = "flap") =>
            UNCHANGED << state, currentPath >>]_vars
    /\ [][(~state.paused /\ runActive /\ lastEvent' = "flap") =>
            state'.birbVelocity = FLAP_VELOCITY]_vars

\* C10 witness: a Space press in a paused run has left another velocity.
C10_Witness ==
    /\ lastEvent = "flap" /\ state.paused /\ runActive
    /\ state.birbVelocity # FLAP_VELOCITY

\* C11: the state sequence of a run ends at its first terminal state: that
\* state is produced by a tick and recorded once, the run is complete exactly
\* while the state is terminal, no tick, Space or P event produces a state
\* after it, and a restart starts the states of a new run.
C11_RunEndsAtFirstTerminal ==
    /\ [](runActive <=> ~IsTerminal(state))
    /\ [][(~IsTerminal(state) /\ IsTerminal(state')) =>
            /\ lastEvent' = "tick"
            /\ Len(currentPath') = Len(currentPath) + 1
            /\ ~runActive']_vars
    /\ [][IsTerminal(state) =>
            IF lastEvent' = "restart"
            THEN runActive' /\ ~IsTerminal(state') /\ Len(currentPath') = 1
            ELSE UNCHANGED << state, currentPath, runActive >>]_vars

\* C11 witness: a Space press after the game is over has produced no state.
C11_Witness ==
    lastEvent = "flap" /\ state.gameOver /\ ~runActive /\ prior = state

\* C12 as stated: for every integer seed, negative ones included,
\* RNG.scale(RNG.hash(seed)) lies in [-1, 1].
C12_ScaleInRange ==
    lastEvent = "hash" =>
        /\ RNG_scaleFloor(state.rngSeed) >= -1
        /\ RNG_scaleCeil(state.rngSeed) <= 1

\* The pipe the age unit updates, and the same pipe before the update.
C13_Pipe == state.pipeRead[1][1]

C13_PipeBefore ==
    IF prior.pipeRead = None THEN pipeProperties[1] ELSE prior.pipeRead[1][1]

\* C13: for a pipe with spawn time 0, xpos is 600 at age 0 and -50 at age
\* 3000, it does not increase as the age grows within [0, 3000], it is 600 for
\* an age below 0 and -50 for an age above 3000.
C13_PipeXpos ==
    (limits.unit = "age" /\ lastEvent = "age") =>
        /\ C13_Pipe.time = 0 /\ C13_Pipe.age = state.elapsedTime
        /\ C13_Pipe.age = 0 => C13_Pipe.xpos = X(600)
        /\ C13_Pipe.age = 3000 => C13_Pipe.xpos = X(600) - X(600 + 50)
        /\ C13_Pipe.age < 0 => C13_Pipe.xpos = X(600)
        /\ C13_Pipe.age > 3000 => C13_Pipe.xpos = X(0 - 50)
        /\ (/\ prior.pipeRead # None
             /\ 0 <= C13_PipeBefore.age
             /\ C13_PipeBefore.age <= C13_Pipe.age
             /\ C13_Pipe.age <= 3000) =>
              C13_PipeBefore.xpos >= C13_Pipe.xpos

\* C13 witness: the pipe has reached the age 3000 from a younger age, further
\* to the right.
C13_Witness ==
    /\ limits.unit = "age" /\ lastEvent = "age"
    /\ C13_Pipe.age = PIPE_TRAVEL_MS
    /\ C13_PipeBefore.xpos > C13_Pipe.xpos

\* C14: with an empty pipe list every reachable state has score = 0, no state
\* with score = 20 is reachable, a life is lost only on a tick that leaves the
\* bird at position 0 or at the floor, and every terminal state has
\* gameOver = true.
C14_EmptyPipeList ==
    pipeProperties = << >> =>
        /\ state.score = 0
        /\ state.score # WIN_SCORE
        /\ IsTerminal(state) => state.gameOver
        /\ (lastEvent # "restart" /\ state.birbLives < prior.birbLives) =>
              /\ lastEvent = "tick"
              /\ state.birbPosition \in { 0, Y(CANVAS_HEIGHT - BIRB_HEIGHT) }

\* C14 witness: a run without pipes has been lost at the floor.
C14_Witness ==
    /\ pipeProperties = << >> /\ lastEvent = "tick"
    /\ state.gameOver /\ state.score = 0
    /\ state.birbPosition = Y(CANVAS_HEIGHT - BIRB_HEIGHT)

\* C15: while no previous recording exists ghostBirbPos is undefined in every
\* state of the run, every tick still produces the next state (the clock
\* advanced by one period, the position a number, the lives within 0..3),
\* and a recording of length zero leaves ghostBirbPos as it is.
C15_NoGhostWithoutRecording ==
    /\ [](prevPathRef = None => state.ghostBirbPos = None)
    /\ [][(prevPathRef = None /\ lastEvent' = "tick") =>
            /\ state'.ghostBirbPos = None
            /\ state'.elapsedTime = state.elapsedTime + TICK_RATE_MS
            /\ state'.birbPosition \in Int
            /\ state'.birbLives \in 0..INITIAL_LIVES]_vars
    /\ [](GhostBirbPos(Some(<< >>), state.elapsedTime + TICK_RATE_MS, state)
            = state.ghostBirbPos)

\* C15 witness: the second tick of a session with no recording yet.
C15_Witness ==
    /\ lastEvent = "tick" /\ prevPathRef = None /\ nRestarts = 0
    /\ state.elapsedTime = 2 * TICK_RATE_MS /\ state.ghostBirbPos = None

\* C16 as stated: the recorded path receives one (elapsedTime, birbPosition)
\* sample per accepted tick and no sample for a flap, a pause-toggle or the
\* start of a run.
C16_SampleOnlyPerTick ==
    [][/\ lastEvent' = "tick" =>
            currentPath' = Append(currentPath, [ t |-> state'.elapsedTime,
                                                 y |-> state'.birbPosition ])
       /\ lastEvent' \in { "flap", "pause", "clock" } => currentPath' = currentPath
       /\ lastEvent' = "restart" => currentPath' = << >>]_vars

\* The event of this step has passed a State through scan: a tick, a Space
\* press in a run that is subscribed and not paused, a P press in a subscribed
\* run, or the subscription of a new run.
C16_Emitted ==
    \/ lastEvent' \in { "tick", "restart" }
    \/ lastEvent' = "flap" /\ runActive /\ ~state.paused
    \/ lastEvent' = "pause" /\ runActive

\* C16 amended: the recorded path receives one (elapsedTime, birbPosition)
\* sample per State the run emits: one at the subscription of the run, one
\* per accepted tick, one per flap delivered and one per pause-toggle; an
\* event that is dropped records nothing; within a run samples are only
\* appended, and their timestamps are in non-decreasing order.
C16_SamplePerEmission ==
    /\ [][IF lastEvent' = "restart"
          THEN currentPath' = << [ t |-> 0, y |-> Y(INITIAL_POSITION) ] >>
          ELSE IF C16_Emitted
          THEN currentPath' = Append(currentPath, [ t |-> state'.elapsedTime,
                                                    y |-> state'.birbPosition ])
          ELSE currentPath' = currentPath]_vars
    /\ [](\A i \in 1..(Len(currentPath) - 1) : currentPath[i].t <= currentPath[i + 1].t)

\* C16 witness: a flap has recorded a sample equal to the one before it.
C16_Witness ==
    /\ lastEvent = "flap" /\ state.birbVelocity = FLAP_VELOCITY
    /\ Len(currentPath) >= 3
    /\ currentPath[Len(currentPath)] = currentPath[Len(currentPath) - 1]
    /\ prior.birbVelocity # FLAP_VELOCITY

\* C17 as stated: the previous-path slot is replaced by a run's recorded path
\* exactly when that run reaches a terminal tick, and at no other event.
C17_ReplacedOnlyAtTerminalTick ==
    [][IF lastEvent' = "tick" /\ IsTerminal(state')
       THEN prevPathRef' = Some(currentPath')
       ELSE prevPathRef' = prevPathRef]_vars

\* C17 amended: the previous-path slot is replaced by a run's recorded path
\* when the run ends: at its terminal tick, or at a restart that interrupts it
\* before a terminal tick; no other event changes the slot.
C17_ReplacedAtRunEnd ==
    [][IF lastEvent' = "tick" /\ IsTerminal(state')
       THEN prevPathRef' = Some(currentPath')
       ELSE IF lastEvent' = "restart" /\ runActive
       THEN prevPathRef' = Some(currentPath)
       ELSE prevPathRef' = prevPathRef]_vars

\* C17 witness: a restart has interrupted a run after its first ticks and the
\* slot holds what the run had recorded.
C17_Witness ==
    /\ lastEvent = "restart" /\ ~IsTerminal(prior) /\ prior.elapsedTime > 0
    /\ prevPathRef # None
    /\ prevPathRef[1][Len(prevPathRef[1])].t = prior.elapsedTime

\* C18: the previous-path slot never holds an empty recording, and a run that
\* ends having recorded zero samples leaves the slot unchanged.
C18_EmptyRecordingKeepsGhost ==
    /\ [](prevPathRef # Some(<< >>))
    /\ [][(lastEvent' = "finalize" /\ currentPath = << >>) =>
            prevPathRef' = prevPathRef]_vars

\* C18 witness: a run has ended with zero samples and the recording of an
\* earlier run is still in the slot.
C18_Witness ==
    /\ lastEvent = "finalize" /\ currentPath = << >>
    /\ prevPathRef # None /\ Len(prevPathRef[1]) > 0

\* The lookup in a recording: the y of its last sample with timestamp <= t,
\* or nothing past its last timestamp.
C19_Lookup(path, t) ==
    LET Last(i) == path[i].t <= t /\ \A j \in (i + 1)..Len(path) : path[j].t > t
    IN  IF t > path[Len(path)].t THEN None
        ELSE Some(path[CHOOSE i \in 1..Len(path) : Last(i)].y)

\* C19: from the second run on, the ghost source of a run is the recording of
\* the run before it (whatever an older run recorded is replaced), it does not
\* change while the run lasts, and every tick reads it, not the samples the
\* run itself has recorded.
C19_GhostSourceOfRun ==
    /\ [][lastEvent' = "restart" => prevPathRef' = Some(currentPath)]_vars
    /\ [][(runActive /\ runActive' /\ lastEvent' # "restart") =>
            prevPathRef' = prevPathRef]_vars
    /\ [][(lastEvent' = "tick" /\ nRestarts >= 1) =>
            state'.ghostBirbPos = C19_Lookup(prevPathRef[1], state'.elapsedTime)]_vars

\* C19 witness: a tick of the third run shows a ghost.
C19_Witness ==
    lastEvent = "tick" /\ nRestarts >= 2 /\ state.ghostBirbPos # None

\* The next State of a tick without the ghost: the fields the claim lists.
C20_TickCore(s, ghostPath) ==
    [ TickReducer(s, pipeProperties, ghostPath) EXCEPT !.ghostBirbPos = None ]

\* C20: runs are reproducible: the seed of initialState is the same for every
\* run of the session, every run starts from the same State, and the next
\* State of a tick, the ghost aside, depends on nothing but the State before
\* it (not on the recording of an earlier run).
C20_RunsReproducible ==
    /\ [][seed0' = seed0]_vars
    /\ [](lastEvent \in { "start", "restart" } =>
            /\ state.rngSeed = seed0
            /\ state = [ initialState(seed0) EXCEPT !.paused = FALSE ])
    /\ [](C20_TickCore(state, prevPathRef)
            = C20_TickCore([ state EXCEPT !.ghostBirbPos = None ], None))

\* C20 witness: a restart after a run whose collisions had advanced the seed.
C20_Witness ==
    lastEvent = "restart" /\ prior.rngSeed # seed0 /\ state.rngSeed = seed0

\* The place in the pipe list of the pipe a tick that produced s selected as
\* overlapping, 0 if it selected none.
C21_Index(s) ==
    IF s.pipeRead = None THEN 0
    ELSE LET pipes == s.pipeRead[1]
             hits == { i \in 1..Len(pipes) :
                         pipes[i].time <= s.elapsedTime /\ pipes[i].birdPassing }
         IN  IF hits = { } THEN 0 ELSE CHOOSE i \in hits : \A j \in hits : i <= j

\* The last tick took a life with the bird away from the canvas top and floor.
C21_LostOffCanvas ==
    /\ state.birbLives < prior.birbLives
    /\ C5_CanvasClamped(prior) \notin { 0, Y(CANVAS_HEIGHT - BIRB_HEIGHT) }

\* C21: while the same pipe stays the selected overlapping pipe, at most one
\* life is lost on ticks where the bird does not touch the canvas top or
\* floor: such a loss needs a selected pipe and marks it, the mark is held
\* while that pipe stays selected, and a marked pipe takes no further life.
C21_OneLifePerPipe ==
    lastEvent = "tick" =>
        /\ C21_LostOffCanvas =>
              /\ C21_Index(state) # 0
              /\ prior.invinciblePipeTime # Some(C5_Selected(state)[1].time)
              /\ state.invinciblePipeTime = Some(C5_Selected(state)[1].time)
        /\ (/\ C21_Index(state) # 0
            /\ C21_Index(prior) = C21_Index(state)
            /\ prior.invinciblePipeTime = Some(C5_Selected(state)[1].time)) =>
              /\ state.invinciblePipeTime = prior.invinciblePipeTime
              /\ ~C21_LostOffCanvas

\* C21 witness: a tick with the bird still outside the gap of the pipe it had
\* hit, away from the canvas bounds, has taken no life.
C21_Witness ==
    /\ lastEvent = "tick" /\ C21_Index(state) # 0
    /\ C21_Index(prior) = C21_Index(state)
    /\ prior.invinciblePipeTime = Some(C5_Selected(state)[1].time)
    /\ LET p == C5_Selected(state)[1]
           y == C5_CanvasClamped(prior)
       IN  /\ (y <= p.gapTop \/ y >= p.gapBottom)
           /\ y \notin { 0, Y(CANVAS_HEIGHT - BIRB_HEIGHT) }
    /\ state.birbLives = prior.birbLives

\* The last tick was a first hit on the pipe it selected.
C22_FirstHit ==
    /\ C5_Selected(state) # None
    /\ LET p == C5_Selected(state)[1]
           y == C5_CanvasClamped(prior)
       IN  /\ (y <= p.gapTop \/ y >= p.gapBottom)
           /\ prior.invinciblePipeTime # Some(p.time)

\* C22: after a tick the invincibility marker is the spawn time of the
\* selected pipe if the tick was a first hit on it, its previous value if the
\* selected pipe's spawn time equals the previous marker, and cleared
\* otherwise; in every state a set marker is the spawn time of a spawned pipe
\* whose horizontal span overlaps the bird.
C22_MarkerLifecycle ==
    /\ lastEvent = "tick" =>
          state.invinciblePipeTime =
              IF C22_FirstHit THEN Some(C5_Selected(state)[1].time)
              ELSE IF /\ C5_Selected(state) # None
                      /\ prior.invinciblePipeTime = Some(C5_Selected(state)[1].time)
                   THEN prior.invinciblePipeTime
                   ELSE None
    /\ state.invinciblePipeTime # None =>
          /\ state.pipeRead # None
          /\ \E i \in 1..Len(state.pipeRead[1]) :
                LET p == state.pipeRead[1][i]
                IN  /\ Some(p.time) = state.invinciblePipeTime
                    /\ p.time <= state.elapsedTime
                    /\ p.xpos <= BIRB_REAR /\ p.xpos + X(PIPE_WIDTH) >= BIRB_X

\* C22 witness: a tick has cleared the marker of a pipe the bird has left.
C22_Witness ==
    /\ lastEvent = "tick" /\ prior.invinciblePipeTime # None
    /\ state.invinciblePipeTime = None

\* C23: on a side entry (a first hit on the selected pipe whose birdPassing
\* was false on the previous tick and is true now) the resulting birbPosition
\* is the canvas-clamped integrated position, not moved to a gap bound, a life
\* is lost and the velocity is replaced by a bounce.
C23_SideEntryNotClamped ==
    (lastEvent = "tick" /\ C22_FirstHit /\ ~C5_Selected(state)[1].prevPassing) =>
        /\ C5_Selected(state)[1].birdPassing
        /\ state.birbPosition = C5_CanvasClamped(prior)
        /\ state.birbLives = prior.birbLives - 1
        /\ state.birbVelocity \in
              { BounceOf(RNG_hash(prior.rngSeed)), 0 - BounceOf(RNG_hash(prior.rngSeed)) }
        /\ state.birbVelocity # prior.birbVelocity + GRAVITY

\* C23 witness: a side entry has left the bird strictly outside the gap.
C23_Witness ==
    /\ lastEvent = "tick" /\ C22_FirstHit /\ ~C5_Selected(state)[1].prevPassing
    /\ state.birbPosition \notin { 0, Y(CANVAS_HEIGHT - BIRB_HEIGHT) }
    /\ \/ state.birbPosition < C5_Selected(state)[1].gapTop
       \/ state.birbPosition > C5_Selected(state)[1].gapBottom
    /\ state.birbLives = prior.birbLives - 1

\* C24 as stated: on a collision tick the new velocity is +bounce when the
\* bird hit the canvas top or the upper bound of the gap and -bounce when it
\* hit the canvas floor or the lower bound of the gap, with bounce in [4, 12];
\* on any other tick it is the previous velocity plus gravity.
C24_BounceAwayFromSurface ==
    lastEvent = "tick" =>
        LET y == C5_CanvasClamped(prior)
            bounce == BounceOf(RNG_hash(prior.rngSeed))
            top == y = 0 \/ (C22_FirstHit /\ y <= C5_Selected(state)[1].gapTop)
            bottom == \/ y = Y(CANVAS_HEIGHT - BIRB_HEIGHT)
                      \/ (C22_FirstHit /\ y >= C5_Selected(state)[1].gapBottom)
        IN  IF top \/ bottom
            THEN /\ bounce \in Y(BOUNCE_MEAN - BOUNCE_SPREAD)..Y(BOUNCE_MEAN + BOUNCE_SPREAD)
                 /\ top => state.birbVelocity = bounce
                 /\ bottom => state.birbVelocity = 0 - bounce
            ELSE state.birbVelocity = prior.birbVelocity + GRAVITY

\* The last tick was a collision tick: a first hit on the selected pipe, or
\* the bird at the canvas top or floor.
C25_Collision ==
    \/ C22_FirstHit
    \/ C5_CanvasClamped(prior) \in { 0, Y(CANVAS_HEIGHT - BIRB_HEIGHT) }

\* C25: a collision tick (a first pipe hit, a canvas hit, or both at once)
\* takes exactly one life, floored at 0, any other tick takes none; a flap, a
\* pause-toggle and a suppressed tick never change birbLives; in every state
\* gameOver = true if and only if birbLives = 0.
C25_LivesAndGameOver ==
    /\ lastEvent = "tick" =>
          state.birbLives =
              IF C25_Collision
              THEN (IF prior.birbLives - 1 <= 0 THEN 0 ELSE prior.birbLives - 1)
              ELSE prior.birbLives
    /\ lastEvent \in { "flap", "pause", "clock" } => state.birbLives = prior.birbLives
    /\ state.gameOver <=> state.birbLives = 0

\* C25 witness: a tick with a first pipe hit and the bird at the floor has
\* taken one life.
C25_Witness ==
    /\ lastEvent = "tick" /\ C22_FirstHit
    /\ C5_CanvasClamped(prior) = Y(CANVAS_HEIGHT - BIRB_HEIGHT)
    /\ state.birbLives = prior.birbLives - 1

\* C26: on a collision tick rngSeed becomes hash(previous rngSeed), once; on
\* any other tick and on every flap, pause-toggle and suppressed tick it is
\* unchanged; hash(1234) = 233191843.
C26_SeedAdvancesOnCollision ==
    /\ lastEvent = "tick" =>
          state.rngSeed =
              IF C25_Collision THEN RNG_hash(prior.rngSeed) ELSE prior.rngSeed
    /\ lastEvent \in { "flap", "pause", "clock" } => state.rngSeed = prior.rngSeed
    /\ RNG_hash(BOUNCE_SEED) = 233191843

\* C26 witness: a collision tick has advanced the seed, and a flap has kept it.
C26_Witness ==
    /\ lastEvent = "flap" /\ state.birbVelocity = FLAP_VELOCITY
    /\ state.rngSeed = prior.rngSeed
    /\ state.rngSeed = RNG_hash(seed0)

\* C27: after every accepted tick score is the number of pipes of the full
\* pipe list whose passed flag is true; passed is true from the first tick at
\* which 159 > xpos + 50 and stays true.
C27_ScoreCountsPassed ==
    lastEvent = "tick" =>
        LET pipes == state.pipeRead[1]
            Before(i) == prior.pipeRead # None /\ prior.pipeRead[1][i].passed
        IN  /\ state.score = Cardinality({ i \in 1..Len(pipes) : pipes[i].passed })
            /\ \A i \in 1..Len(pipes) :
                  pipes[i].passed <=> (Before(i) \/ X(159) > pipes[i].xpos + X(50))

\* C27 witness: a pipe has been passed while another one of the list has not
\* spawned yet.
C27_Witness ==
    /\ lastEvent = "tick" /\ state.score = 1 /\ prior.score = 0
    /\ \E i \in 1..Len(state.pipeRead[1]) : state.pipeRead[1][i].time > state.elapsedTime

\* C28: every accepted tick adds 16 ms to elapsedTime; a flap, a pause-toggle
\* and a suppressed tick leave it unchanged; a run starts at 0, so in the
\* first run elapsedTime is 16 times the number of accepted ticks; every
\* pipe's age is elapsedTime less its spawn time.
C28_ElapsedTimeClockDriven ==
    /\ lastEvent = "tick" => state.elapsedTime = prior.elapsedTime + 16
    /\ lastEvent \in { "flap", "pause", "clock" } => state.elapsedTime = prior.elapsedTime
    /\ lastEvent \in { "start", "restart" } => state.elapsedTime = 0
    /\ nRestarts = 0 => state.elapsedTime = 16 * nTicks
    /\ state.pipeRead # None =>
          \A i \in 1..Len(state.pipeRead[1]) :
              state.pipeRead[1][i].age = state.elapsedTime - state.pipeRead[1][i].time

\* C28 witness: a tick after a flap, a pause and a resume.
C28_Witness ==
    /\ lastEvent = "tick" /\ nRestarts = 0 /\ nFlaps = 1 /\ nPauses = 2
    /\ state.elapsedTime = 16 * nTicks /\ nTicks >= 2

\* C29: after a pipe update the render list holds exactly the pipes of the
\* full list with 0 <= age <= 3000, in schedule order; a pipe with a negative
\* age or an age above 3000 is never in it.
C29_RenderList ==
    (limits.unit = "age" /\ lastEvent = "age") =>
        LET InTravel(p) == 0 <= p.age /\ p.age <= 3000
            shown == state.pipeRendering[1]
        IN  /\ shown = SelectSeq(state.pipeRead[1], InTravel)
            /\ \A k \in 1..Len(shown) : shown[k].age >= 0 /\ shown[k].age <= 3000

\* C29 witness: the first pipe has left the render list by age and the
\* second one is still in it.
C29_Witness ==
    /\ limits.unit = "age" /\ lastEvent = "age"
    /\ state.pipeRead[1][1].age > PIPE_TRAVEL_MS
    /\ Len(state.pipeRendering[1]) = 1
    /\ state.pipeRendering[1][1] = state.pipeRead[1][2]

\* The places in the pipe list of the spawned pipes whose span overlaps the
\* bird after the last tick.
C30_Overlapping ==
    { i \in 1..Len(state.pipeRead[1]) :
        /\ state.pipeRead[1][i].time <= state.elapsedTime
        /\ state.pipeRead[1][i].birdPassing }

\* C30: when two or more spawned pipes overlap the bird on a tick, the
\* collision, the clamp and the marker follow the first of them in list
\* order: a life is lost only at the canvas bounds or on a first hit on that
\* pipe, the position is the integrated one or a bound of that pipe's gap, and
\* a set marker is that pipe's spawn time.
C30_FirstOverlappingPipeDecides ==
    (lastEvent = "tick" /\ Cardinality(C30_Overlapping) >= 2) =>
        LET first == state.pipeRead[1][CHOOSE i \in C30_Overlapping :
                                          \A j \in C30_Overlapping : i <= j]
            y == C5_CanvasClamped(prior)
            hitFirst == /\ (y <= first.gapTop \/ y >= first.gapBottom)
                        /\ prior.invinciblePipeTime # Some(first.time)
        IN  /\ state.birbLives < prior.birbLives =>
                  (hitFirst \/ y \in { 0, Y(CANVAS_HEIGHT - BIRB_HEIGHT) })
            /\ state.birbPosition \in { y, first.gapTop, first.gapBottom }
            /\ ~hitFirst => state.birbPosition = y
            /\ state.invinciblePipeTime \in { None, Some(first.time) }

\* C30 witness: the bird is inside the gap of the first overlapping pipe and
\* outside the gap of another one it has not hit, and no life is lost.
C30_Witness ==
    /\ lastEvent = "tick" /\ Cardinality(C30_Overlapping) >= 2
    /\ state.birbLives = prior.birbLives
    /\ LET first == C5_Selected(state)[1]
           y == C5_CanvasClamped(prior)
       IN  /\ first.gapTop < y /\ y < first.gapBottom
           /\ \E i \in C30_Overlapping :
                 /\ (y <= state.pipeRead[1][i].gapTop \/ y >= state.pipeRead[1][i].gapBottom)
                 /\ prior.invinciblePipeTime # Some(state.pipeRead[1][i].time)

\* C31: the recording of a run holds the bird's positions (its timestamps
\* never decrease, samples with the same timestamp have the same position,
\* the last sample is the current state), and on every accepted tick whose
\* elapsed time t does not exceed the last timestamp of the ghost source,
\* ghostBirbPos is the position recorded with timestamp t, whichever of the
\* samples with that timestamp is taken.
C31_GhostFidelity ==
    /\ [](/\ currentPath[Len(currentPath)] =
                [ t |-> state.elapsedTime, y |-> state.birbPosition ]
          /\ \A i \in 1..(Len(currentPath) - 1) :
                /\ currentPath[i].t <= currentPath[i + 1].t
                /\ currentPath[i].t = currentPath[i + 1].t =>
                       currentPath[i].y = currentPath[i + 1].y)
    /\ [][(/\ lastEvent' = "tick"
           /\ prevPathRef # None
           /\ state'.elapsedTime <= prevPathRef[1][Len(prevPathRef[1])].t) =>
            LET path == prevPathRef[1]
                at == { i \in 1..Len(path) : path[i].t = state'.elapsedTime }
            IN  /\ at # { }
                /\ \A i \in at : state'.ghostBirbPos = Some(path[i].y)]_vars

\* C31 witness: a tick of a later run has read the ghost from a recording
\* that holds two samples with the same, earlier timestamp.
C31_Witness ==
    /\ lastEvent = "tick" /\ nRestarts >= 1 /\ ~IsTerminal(state)
    /\ prevPathRef # None /\ state.ghostBirbPos # None
    /\ state.elapsedTime <= prevPathRef[1][Len(prevPathRef[1])].t
    /\ \E i \in 1..(Len(prevPathRef[1]) - 1) :
          /\ prevPathRef[1][i].t = prevPathRef[1][i + 1].t
          /\ prevPathRef[1][i].t < state.elapsedTime

\* C32: in every reachable state the bird is inside the canvas:
\* 0 <= birbPosition <= 370.
C32_PositionInsideCanvas ==
    state.birbPosition \in 0..Y(CANVAS_HEIGHT - BIRB_HEIGHT)

\* C33: in every reachable state score <= 20, and a state whose score has
\* reached 20 or more is the last one of its run: the run is no longer
\* subscribed.
C33_ScoreAtMostTarget ==
    /\ state.score <= WIN_SCORE
    /\ state.score >= WIN_SCORE => ~runActive

\* C34: with the clock running, no pause left standing and no flap, every
\* run reaches a terminal state: gameOver = true or score = 20.
C34_EventuallyTerminal == <>IsTerminal(state)

\* C34 witness: a run that was paused and resumed has ended.
C34_Witness ==
    /\ limits = LiveSession /\ nPauses = LivePauses
    /\ lastEvent = "tick" /\ IsTerminal(state) /\ ~IsTerminal(prior)

\* A state without its ghost.
C35_Erase(s) == [ s EXCEPT !.ghostBirbPos = None ]

\* C35: the ghost never influences gameplay: whatever the ghost source (none,
\* the recording in the slot, or another recording) and whatever ghostBirbPos
\* the state before held, the same event produces a state with the same
\* birbPosition, birbVelocity, birbLives, score, gameOver, rngSeed, marker,
\* elapsedTime, paused flag and pipes; only ghostBirbPos may differ.
C35_GhostNeverInfluencesGameplay ==
    [][\A g \in { None, Some(0) } :
         \A source \in { None, prevPathRef, Some(currentPath) } :
            LET other == [ state EXCEPT !.ghostBirbPos = g ]
            IN  /\ lastEvent' = "tick" =>
                      C35_Erase(state') =
                          C35_Erase(TickReducer(other, pipeProperties, source))
                /\ (lastEvent' = "flap" /\ nFlaps' # nFlaps) =>
                      C35_Erase(state') = C35_Erase(FlapReducer(other))
                /\ (lastEvent' = "pause" /\ nPauses' # nPauses) =>
                      C35_Erase(state') = C35_Erase(PauseReducer(state'.paused, other))]_vars

\* C35 witness: a collision tick of a run whose ghost is shown, away from
\* the bird.
C35_Witness ==
    /\ lastEvent = "tick" /\ C25_Collision /\ nRestarts >= 1
    /\ state.ghostBirbPos # None
    /\ state.ghostBirbPos # Some(state.birbPosition)

\* C36: a life is never lost to a canvas boundary on two consecutive accepted
\* ticks of a run, whatever flaps come between them.  The position is changed
\* by ticks only, and a tick leaves the bird at 0 or at the floor exactly when
\* it was a canvas hit, so the tick before cost a life at the canvas exactly
\* when the bird is at a boundary before this tick.
C36_NoCanvasLossOnConsecutiveTicks ==
    lastEvent = "tick" =>
        ~ /\ prior.birbPosition \in { 0, Y(CANVAS_HEIGHT - BIRB_HEIGHT) }
          /\ C5_CanvasClamped(prior) \in { 0, Y(CANVAS_HEIGHT - BIRB_HEIGHT) }
          /\ state.birbLives < prior.birbLives

\* C37: a flap applied to a non-terminal state sets birbVelocity to -7 and
\* leaves every other field of the state as it was.
C37_FlapChangesVelocityOnly ==
    [][(lastEvent' = "flap" /\ nFlaps' # nFlaps /\ ~IsTerminal(state)) =>
          state' = [ state EXCEPT !.birbVelocity = 0 - Y(7) ]]_vars

\* C37 witness: a flap has been applied in a run with pipes read, the seed
\* advanced and a ghost shown.
C37_Witness ==
    /\ lastEvent = "flap" /\ state # prior
    /\ state.birbVelocity = 0 - Y(7) /\ prior.birbVelocity > 0
    /\ state.pipeRead # None /\ state.ghostBirbPos # None
    /\ state.rngSeed # seed0 /\ state.birbLives < INITIAL_LIVES

\* C38: every pause-toggle event flips the paused flag of the state and
\* changes no other field; every run starts with paused = false; in every
\* non-terminal state paused = true exactly when the tick/flap stream of the
\* run is gated off.
C38_PauseFlagFollowsGate ==
    /\ [][(lastEvent' = "pause" /\ nPauses' # nPauses) =>
             state' = [ state EXCEPT !.paused = ~state.paused ]]_vars
    /\ [](lastEvent \in { "start", "restart" } => state.paused = FALSE)
    /\ [](~IsTerminal(state) => (state.paused <=> ~gateOpen))

\* C38 witness: a game with the bird in motion has been paused, the gate is
\* off.
C38_Witness ==
    /\ lastEvent = "pause" /\ prior.paused = FALSE /\ state.paused = TRUE
    /\ ~gateOpen /\ state.elapsedTime > 0 /\ state.birbVelocity # 0

\* C39: no pipe has both birdPassing = true and passed = true; a pipe that
\* was passed stays passed and does not overlap the bird again.
C39_PassedAfterOverlap ==
    state.pipeRead # None =>
        \A i \in 1..Len(state.pipeRead[1]) :
            LET p == state.pipeRead[1][i]
            IN  /\ ~(p.birdPassing /\ p.passed)
                /\ (prior.pipeRead # None /\ prior.pipeRead[1][i].passed) =>
                       (p.passed /\ ~p.birdPassing)

\* C39 witness: the first pipe has just left the bird's span and is passed
\* while the second one still overlaps the bird.
C39_Witness ==
    /\ limits.unit = "age" /\ lastEvent = "age"
    /\ state.pipeRead[1][1].passed /\ state.pipeRead[1][1].prevPassing
    /\ ~state.pipeRead[1][1].birdPassing
    /\ state.pipeRead[1][2].birdPassing /\ ~state.pipeRead[1][2].passed

\* C40: after every accepted tick each pipe's prevPassing is the birdPassing
\* it had after the tick before (false on the first tick of a run) and its
\* prevXpos is its xpos of the tick before; so a first hit is treated as a
\* side entry (the position is left where the canvas clamp put it) exactly
\* when the pipe did not overlap the bird after the tick before, and is
\* clamped to a bound of the gap otherwise.
C40_PreviousTickFields ==
    lastEvent = "tick" =>
        LET pipes == state.pipeRead[1]
            first == prior.pipeRead = None
            before == IF first THEN pipeProperties ELSE prior.pipeRead[1]
            y == C5_CanvasClamped(prior)
        IN  /\ \A i \in 1..Len(pipes) :
                  /\ pipes[i].prevPassing = (IF first THEN FALSE ELSE before[i].birdPassing)
                  /\ pipes[i].prevXpos = before[i].xpos
            /\ C22_FirstHit =>
                  LET sel == pipes[C21_Index(state)]
                  IN  IF first \/ ~before[C21_Index(state)].birdPassing
                      THEN state.birbPosition = y
                      ELSE state.birbPosition =
                               (IF y <= sel.gapTop THEN sel.gapTop ELSE sel.gapBottom)

\* C40 witness: a first hit on the tick at which the pipe's span reached the
\* bird, with the bird strictly outside the gap and left there.
C40_Witness ==
    /\ lastEvent = "tick" /\ C22_FirstHit /\ prior.pipeRead # None
    /\ LET sel == state.pipeRead[1][C21_Index(state)]
           was == prior.pipeRead[1][C21_Index(state)]
       IN  /\ ~was.birdPassing /\ sel.birdPassing /\ ~sel.prevPassing
           /\ sel.prevXpos = was.xpos /\ sel.prevXpos > sel.xpos
           /\ (state.birbPosition < sel.gapTop \/ state.birbPosition > sel.gapBottom)

====
